---- MODULE Spec2Model ----
(***************************************************************************)
(* Model of src/main.py, the Streamlit audio transcription application.    *)
(*                                                                         *)
(* The script is re-executed from top to bottom on every user event        *)
(* (page load, upload, button click, text edit, download click).  One      *)
(* action of this model is one such execution, from line 55 to line 176.   *)
(* st.session_state survives between executions; so does the state of the  *)
(* widgets that the previous execution rendered.                           *)
(*                                                                         *)
(* Times are integers in milliseconds, texts are strings.                  *)
(***************************************************************************)
EXTENDS Integers, Sequences, FiniteSets, TLC

VARIABLES
    uploaded_file,   \* size in bytes of the file in the uploader, or NoFile
    session_state,   \* st.session_state: a function from the keys that are set
    widgets,         \* state of the widgets rendered by the last execution
    page,            \* what the last execution put on the page
    calls,           \* number of transcription calls made so far
    tmp_files,       \* number of temporary files that exist on disk
    lastEvent,       \* the user event that caused the last execution
    result,          \* the result of the last successful call, <<>> if none
    fullEdit,        \* <<t>>: last full-text edit since that call, <<>> if none
    segEdit,         \* key -> last text submitted for it since that call
    edited           \* <<key, t>>: the edit that caused the last execution

vars == <<uploaded_file, session_state, widgets, page, calls, tmp_files,
          lastEvent, result, fullEdit, segEdit, edited>>

----------------------------------------------------------------------------
(* Bounds and inputs                                                       *)

MaxCalls == 2

NoFile == -1

SizeLimit == 20 * 1024 * 1024

\* Sizes of the files the user may upload: under, at and over the limit.
FileSizes == {SizeLimit - 1, SizeLimit, SizeLimit + 1}

Seg(s, e, t) == [start |-> s, end |-> e, text |-> t]

\* Results the transcription service may return.  Start times need not be
\* unique inside one result, and two results may share start times.
Results ==
    { [text |-> "hello world",
       segments |-> <<Seg(0, 1000, "hello"), Seg(1000, 2000, "world")>>],
      [text |-> "xin chao",
       segments |-> <<Seg(0, 1500, "xin"), Seg(1500, 2004, "chao")>>],
      [text |-> "a b",
       segments |-> <<Seg(0, 1000, "a"), Seg(0, 2000, "b"),
                      Seg(2000, 3000, "c")>>],
      [text |-> "", segments |-> <<>>] }

\* Texts the user may type into a text area.
Typed == {"", "hi"}

----------------------------------------------------------------------------
(* Number formatting                                                       *)

Digit(n) == ToString(n % 10)

\* f"{x:.2f}" for x = ms / 1000 seconds: rounded to centiseconds (the inputs
\* used here are never half-way between two centiseconds).
Fmt2(ms) ==
    LET cs == (ms + 5) \div 10
    IN  ToString(cs \div 100) \o "." \o Digit((cs % 100) \div 10) \o Digit(cs)

\* f"{x}" for the float x = ms / 1000: the shortest decimal that reads back.
PyFloat(ms) ==
    LET f == ms % 1000
        frac == IF f % 100 = 0 THEN Digit(f \div 100)
                ELSE IF f % 10 = 0 THEN Digit(f \div 100) \o Digit(f \div 10)
                ELSE Digit(f \div 100) \o Digit(f \div 10) \o Digit(f)
    IN  ToString(ms \div 1000) \o "." \o frac

segment_key(segment) == "segment_" \o PyFloat(segment.start)

TimeLabel(segment) ==
    "Transcript segment " \o Fmt2(segment.start) \o "-" \o Fmt2(segment.end)

\* Line 160 with a slip: the start time used twice.
TimeCellSlip(segment) == Fmt2(segment.start) \o " - " \o Fmt2(segment.start)

\* Line 160: the Time cell of a segment's export row.
TimeCell(segment) == Fmt2(segment.start) \o " - " \o Fmt2(segment.end)

----------------------------------------------------------------------------
(* Streamlit widgets                                                       *)

Max(a, b) == IF a >= b THEN a ELSE b

\* Line 152: the height handed to a segment's text area.
SegmentHeight(initial_text) == Max(68, (Len(initial_text) \div 40) * 30)

\* The identity Streamlit gives a text area: its key together with the
\* arguments of the call (label, value, height).  A call whose arguments
\* differ from those of the last execution creates a new widget.
WidgetId(key, label, value, height) ==
    [key |-> key, label |-> label, value |-> value, height |-> height]

\* st.text_area with a slip: a new widget starts empty.
text_area_blank(ws, id) == IF id \in DOMAIN ws THEN ws[id] ELSE ""

\* st.text_area: the text the browser holds for this widget if the widget
\* exists already (ws is the widget state at the start of the execution),
\* else the value argument.
text_area(ws, id) == IF id \in DOMAIN ws THEN ws[id] ELSE id.value

TranscriptWidget(value) ==
    WidgetId("transcript_display", "Transcript:", value, 300)

----------------------------------------------------------------------------
(* Lines 16-34: process_audio                                              *)

\* The outcomes of client.audio.transcriptions.create.
Outcomes == {[ok |-> TRUE, r |-> r] : r \in Results} \cup {[ok |-> FALSE]}

\* process_audio with a slip: the segments are cleared before the call.
process_audio_clears(ss, outcome) ==
    IF outcome.ok
    THEN [raised |-> FALSE, tmp |-> 0,
          ss |-> ("segments" :> outcome.r.segments) @@ ss,
          text |-> outcome.r.text]
    ELSE [raised |-> TRUE, tmp |-> 1, ss |-> ("segments" :> <<>>) @@ ss,
          text |-> ""]

\* process_audio with a slip: the error of the call is swallowed.
process_audio_swallows(ss, outcome) ==
    IF outcome.ok
    THEN [raised |-> FALSE, tmp |-> 0,
          ss |-> ("segments" :> outcome.r.segments) @@ ss,
          text |-> outcome.r.text]
    ELSE [raised |-> FALSE, tmp |-> 1, ss |-> ss, text |-> ""]

\* ss is st.session_state at the call.  raised: the call at line 24 raised,
\* so lines 32-34 did not run.  tmp: temporary files left behind (created at
\* line 18, unlinked at line 32).
process_audio(ss, outcome) ==
    IF outcome.ok
    THEN [raised |-> FALSE, tmp |-> 0,
          ss |-> ("segments" :> outcome.r.segments) @@ ss,
          text |-> outcome.r.text]
    ELSE [raised |-> TRUE, tmp |-> 1, ss |-> ss, text |-> ""]

----------------------------------------------------------------------------
(* Lines 55-100: upload section                                            *)

\* Line 68 with a slip: >= for >.
SizeExceedsSlip(size) == size >= SizeLimit

\* Line 68.
SizeExceeds(size) == size > SizeLimit

\* file: the uploader's content; clicked: this execution was caused by a
\* click on "Process Audio"; outcome: what the transcription call does.
UploadSection(file, clicked, outcome, ss) ==
    IF file = NoFile
    THEN [ss |-> ss, error |-> "", success |-> FALSE, button |-> FALSE,
          called |-> 0, tmp |-> 0]
    ELSE IF SizeExceeds(file)
    THEN [ss |-> ss, error |-> "size", success |-> FALSE, button |-> FALSE,
          called |-> 0, tmp |-> 0]
    ELSE IF ~clicked
    THEN [ss |-> ss, error |-> "", success |-> FALSE, button |-> TRUE,
          called |-> 0, tmp |-> 0]
    ELSE LET p == process_audio(ss, outcome)
         IN  IF p.raised
             THEN [ss |-> p.ss, error |-> "api", success |-> FALSE,
                   button |-> TRUE, called |-> 1, tmp |-> p.tmp]
             ELSE [ss |-> ("transcript" :> p.text) @@ p.ss, error |-> "",
                   success |-> TRUE, button |-> TRUE, called |-> 1,
                   tmp |-> p.tmp]

----------------------------------------------------------------------------
(* Lines 102-176: transcript display section                               *)

NoException == ""

\* Line 157 with a slip: the text is stored under every key.
StoreEditAll(es, key, edited_text) ==
    [k \in DOMAIN es \cup {key} |-> edited_text]

\* Line 157: st.session_state['edited_segments'][segment_key] = edited_text.
StoreEdit(es, key, edited_text) == (key :> edited_text) @@ es

\* Lines 136-162, from segment i on.  st carries the loop's state:
\*   es    st.session_state['edited_segments']
\*   data  segments_data
\*   rows  the segment editors put on the page
\*   reg   the widgets registered by this execution, with their values
\*   keys  the widget keys used by this execution
\* Streamlit refuses a second widget with a key already used in the same
\* execution: st.text_area raises and the script stops there.
RECURSIVE SegmentsLoop(_, _, _, _)
SegmentsLoop(segments, i, ws, st) ==
    IF i > Len(segments) THEN st
    ELSE
      LET segment == segments[i]
          key == segment_key(segment)
          initial_text == IF key \in DOMAIN st.es THEN st.es[key]
                          ELSE segment.text
          id == WidgetId(key, TimeLabel(segment), initial_text,
                         SegmentHeight(initial_text))
          edited_text == text_area(ws, id)
      IN  IF key \in st.keys
          THEN [st EXCEPT !.exception = "DuplicateWidgetID"]
          ELSE SegmentsLoop(segments, i + 1, ws,
                 [es |-> StoreEdit(st.es, key, edited_text),
                  data |-> Append(st.data, [Time |-> TimeCell(segment),
                                            Content |-> edited_text]),
                  rows |-> Append(st.rows, [index |-> i, key |-> key,
                                            id |-> id, text |-> edited_text]),
                  reg |-> (id :> edited_text) @@ st.reg,
                  keys |-> st.keys \cup {key},
                  exception |-> st.exception])

\* Line 120: the data of the TXT download button.
TxtDataOriginal(ss) == ss["transcript"]

TxtData(ss) == ss["edited_transcript"]

\* Line 103 without its guard: reading the missing transcript raises.
NoPageUnguarded ==
    [full |-> <<>>, txt |-> <<>>, rows |-> <<>>, excel |-> <<>>,
     exception |-> "KeyError"]

\* Line 103, the guard is false: nothing of the section is put on the page.
NoPage ==
    [full |-> <<>>, txt |-> <<>>, rows |-> <<>>, excel |-> <<>>,
     exception |-> NoException]

\* ss: st.session_state after the upload section; ws: the widget state at
\* the start of the execution.
DisplaySection(ss, ws) ==
    IF "transcript" \notin DOMAIN ss
    THEN [ss |-> ss, reg |-> <<>>, view |-> NoPage]
    ELSE
      LET tid == TranscriptWidget(ss["transcript"])
          edited_full_transcript == text_area(ws, tid)
          ss1 == ("edited_transcript" :> edited_full_transcript) @@ ss
          segments == IF "segments" \in DOMAIN ss1 THEN ss1["segments"]
                      ELSE <<>>
          ss2 == IF "edited_segments" \in DOMAIN ss1 THEN ss1
                 ELSE ("edited_segments" :> <<>>) @@ ss1
          loop == SegmentsLoop(segments, 1, ws,
                    [es |-> ss2["edited_segments"], data |-> <<>>,
                     rows |-> <<>>,
                     reg |-> (tid :> edited_full_transcript),
                     keys |-> {"transcript_display"},
                     exception |-> NoException])
      IN  [ss |-> ("edited_segments" :> loop.es) @@ ss2,
           reg |-> loop.reg,
           view |-> [full |-> <<edited_full_transcript>>,
                     txt |-> <<TxtData(ss1)>>,
                     rows |-> loop.rows,
                     excel |-> IF loop.exception = NoException
                                  /\ loop.data # <<>>
                               THEN <<loop.data>> ELSE <<>>,
                     exception |-> loop.exception]]

----------------------------------------------------------------------------
(* One execution of the script                                             *)

\* file: the uploader's content during this execution; ws: the widget state
\* the browser sent with the event.
Script(file, clicked, outcome, ws, event) ==
    \E up \in {UploadSection(file, clicked, outcome, session_state)} :
    \E d \in {DisplaySection(up.ss, ws)} :
        /\ uploaded_file' = file
        /\ session_state' = d.ss
        /\ widgets' = d.reg
        /\ page' = [error |-> up.error, success |-> up.success,
                    button |-> up.button, full |-> d.view.full,
                    txt |-> d.view.txt, rows |-> d.view.rows,
                    excel |-> d.view.excel,
                    exception |-> d.view.exception]
        /\ calls' = calls + up.called
        /\ tmp_files' = tmp_files + up.tmp
        /\ lastEvent' = event

\* The page is loaded: the first execution, with nothing stored.
Init ==
    /\ uploaded_file = NoFile
    /\ session_state = <<>>
    /\ widgets = <<>>
    /\ page = [error |-> "", success |-> FALSE, button |-> FALSE,
               full |-> <<>>, txt |-> <<>>, rows |-> <<>>, excel |-> <<>>,
               exception |-> NoException]
    /\ calls = 0
    /\ tmp_files = 0
    /\ lastEvent = "load"
    /\ result = <<>>
    /\ fullEdit = <<>>
    /\ segEdit = <<>>
    /\ edited = <<>>

\* The user puts a file into the uploader (line 55).
Upload ==
    \E size \in FileSizes :
        /\ Script(size, FALSE, [ok |-> FALSE], widgets, "upload")
        /\ edited' = <<>>
        /\ UNCHANGED <<result, fullEdit, segEdit>>

\* The user removes the file from the uploader.
RemoveFile ==
    /\ uploaded_file # NoFile
    /\ Script(NoFile, FALSE, [ok |-> FALSE], widgets, "remove")
    /\ edited' = <<>>
    /\ UNCHANGED <<result, fullEdit, segEdit>>

\* The user clicks "Process Audio" (line 87) and the call returns.
ProcessOk ==
    \E r \in Results :
        /\ page.button
        /\ calls < MaxCalls
        /\ Script(uploaded_file, TRUE, [ok |-> TRUE, r |-> r], widgets,
                  "process_ok")
        /\ result' = <<r>>
        /\ fullEdit' = <<>>
        /\ segEdit' = <<>>
        /\ edited' = <<>>

\* The user clicks "Process Audio" and the call raises.
ProcessFail ==
    /\ page.button
    /\ calls < MaxCalls
    /\ Script(uploaded_file, TRUE, [ok |-> FALSE], widgets, "process_fail")
    /\ edited' = <<>>
    /\ UNCHANGED <<result, fullEdit, segEdit>>

\* The user changes the text of the full transcript editor (line 109).
EditFull ==
    \E t \in Typed :
        /\ page.full # <<>>
        /\ LET tid == TranscriptWidget(session_state["transcript"])
           IN  Script(uploaded_file, FALSE, [ok |-> FALSE],
                      [widgets EXCEPT ![tid] = t], "edit_full")
        /\ fullEdit' = <<t>>
        /\ edited' = <<"transcript_display", t>>
        /\ UNCHANGED <<result, segEdit>>

\* The user changes the text of the i-th segment editor (line 148).
EditSegment ==
    \E i \in 1..Len(page.rows), t \in Typed :
        /\ Script(uploaded_file, FALSE, [ok |-> FALSE],
                  [widgets EXCEPT ![page.rows[i].id] = t], "edit_segment")
        /\ segEdit' = (page.rows[i].key :> t) @@ segEdit
        /\ edited' = <<page.rows[i].key, t>>
        /\ UNCHANGED <<result, fullEdit>>

\* The user clicks the TXT download button (line 118).
DownloadTxt ==
    /\ page.txt # <<>>
    /\ Script(uploaded_file, FALSE, [ok |-> FALSE], widgets, "download_txt")
    /\ edited' = <<>>
    /\ UNCHANGED <<result, fullEdit, segEdit>>

\* The user clicks the Excel download button (line 171).
DownloadExcel ==
    /\ page.excel # <<>>
    /\ Script(uploaded_file, FALSE, [ok |-> FALSE], widgets, "download_excel")
    /\ edited' = <<>>
    /\ UNCHANGED <<result, fullEdit, segEdit>>

Next ==
    \/ Upload
    \/ RemoveFile
    \/ ProcessOk
    \/ ProcessFail
    \/ EditFull
    \/ EditSegment
    \/ DownloadTxt
    \/ DownloadExcel

Spec == Init /\ [][Next]_vars

----------------------------------------------------------------------------
(* Vocabulary of the properties                                            *)

HasTranscript == "transcript" \in DOMAIN session_state

\* The segments of the stored result.
Stored == IF "segments" \in DOMAIN session_state
          THEN session_state["segments"] ELSE <<>>

\* The texts of the segment editors on the page, in page order.
RowTexts(pg) == [i \in 1..Len(pg.rows) |-> pg.rows[i].text]

\* The original text of the segment behind the i-th editor on the page.
OriginalText(i) == Stored[page.rows[i].index].text

TypeOK ==
    /\ uploaded_file \in FileSizes \cup {NoFile}
    /\ calls \in 0..MaxCalls
    /\ tmp_files \in 0..MaxCalls
    /\ HasTranscript <=> result # <<>>

----------------------------------------------------------------------------
(* Properties                                                              *)

\* C1: reset law.  Right after a successful "Process Audio" click the full
\* text on the page is the new result's full text, and every segment editor
\* and every export row shows the original text of its segment of the new
\* result: nothing written under an earlier result shows through.
C1_ResetLaw ==
    lastEvent = "process_ok" =>
        /\ page.full = <<result[1].text>>
        /\ \A i \in 1..Len(page.rows) : page.rows[i].text = OriginalText(i)
        /\ page.excel # <<>> =>
              \A i \in 1..Len(page.excel[1]) :
                  page.excel[1][i].Content = OriginalText(i)

\* C2: a "Process Audio" click whose transcription call raises leaves
\* st.session_state (transcript, segments, edited_transcript,
\* edited_segments) as it was, and the page shows the same full text and
\* segment texts as before.  The stored transcript and segments change only
\* in a click whose call succeeded, and they are then that call's result.
C2_FailedCallKeepsState ==
    [][ /\ lastEvent' = "process_fail" =>
              /\ session_state' = session_state
              /\ page'.full = page.full
              /\ RowTexts(page') = RowTexts(page)
        /\ (\/ HasTranscript' # HasTranscript
            \/ Stored' # Stored
            \/ HasTranscript /\ session_state'["transcript"]
                                  # session_state["transcript"]) =>
              /\ lastEvent' = "process_ok"
              /\ calls' = calls + 1
        /\ lastEvent' = "process_ok" =>
              /\ session_state'["transcript"] = result'[1].text
              /\ session_state'["segments"] = result'[1].segments
      ]_vars

C2_Witness ==
    /\ lastEvent = "process_fail"
    /\ page.error = "api"
    /\ HasTranscript
    /\ fullEdit # <<>>
    /\ DOMAIN segEdit # {}

\* C3: two segments at different positions of the stored result never have
\* the same segment key, and each of them has its own editor on the page.
C3_DistinctKeys ==
    /\ \A i, j \in 1..Len(Stored) :
          i # j => segment_key(Stored[i]) # segment_key(Stored[j])
    /\ HasTranscript => Len(page.rows) = Len(Stored)

\* C4: the full text on the page (and stored in edited_transcript) is the
\* last full-text edit made since the most recent successful call if there
\* was one, else the full text of that call's result.
C4_DisplayedFullText ==
    HasTranscript =>
        /\ page.full = (IF fullEdit # <<>> THEN fullEdit
                        ELSE <<result[1].text>>)
        /\ <<session_state["edited_transcript"]>> = page.full

\* C5: every segment editor on the page shows the last text submitted for
\* its key since the most recent successful call, and the segment's
\* original text if there was none.
C5_DisplayedSegmentText ==
    \A i \in 1..Len(page.rows) :
        page.rows[i].text =
            (IF page.rows[i].key \in DOMAIN segEdit
             THEN segEdit[page.rows[i].key] ELSE OriginalText(i))

\* C6: the page has one segment editor per segment of the stored result, in
\* the result's order.
C6_OrderAndCount ==
    HasTranscript =>
        /\ Len(page.rows) = Len(Stored)
        /\ \A i \in 1..Len(page.rows) : page.rows[i].index = i

\* C7: when the Excel export is offered it has one row per segment editor on
\* the page, in page order; the row's Content is the text that editor shows
\* (which is also the value now stored in edited_segments) and its Time is
\* made of that segment's own start and end.
C7_ExcelRows ==
    page.excel # <<>> =>
        LET data == page.excel[1]
        IN  /\ Len(data) = Len(page.rows)
            /\ \A i \in 1..Len(data) :
                  LET segment == Stored[page.rows[i].index]
                  IN  /\ data[i].Content = page.rows[i].text
                      /\ data[i].Content =
                            session_state["edited_segments"][page.rows[i].key]
                      /\ data[i].Time =
                            Fmt2(segment.start) \o " - " \o Fmt2(segment.end)

C7_Witness ==
    /\ page.excel # <<>>
    /\ lastEvent = "edit_segment"
    /\ \E i \in 1..Len(page.rows) :
          /\ page.rows[i].text # OriginalText(i)
          /\ page.excel[1][i].Content = page.rows[i].text
          /\ Stored[i].start # Stored[i].end

\* C8: the TXT download is offered exactly when the full text is on the
\* page, and its data is that text.
C8_TxtExport ==
    /\ page.txt = page.full
    /\ HasTranscript => page.txt # <<>>

C8_Witness ==
    /\ page.txt # <<>>
    /\ fullEdit # <<>>
    /\ page.txt = fullEdit
    /\ page.txt[1] # session_state["transcript"]
    /\ DOMAIN segEdit # {}

\* C9: uploading a file of more than 20 MiB shows the size error and no
\* "Process Audio" button, makes no transcription call and leaves
\* st.session_state as it was; a transcription call is only ever made for a
\* file of at most 20 MiB; for every such file, the one of exactly 20 MiB
\* included, the button is on the page.
C9_SizeLimit ==
    [][ /\ (lastEvent' = "upload" /\ uploaded_file' > 20 * 1024 * 1024) =>
              /\ page'.error = "size"
              /\ ~page'.button
              /\ calls' = calls
              /\ session_state' = session_state
        /\ calls' # calls =>
              /\ uploaded_file # NoFile
              /\ uploaded_file <= 20 * 1024 * 1024
              /\ uploaded_file' = uploaded_file
        /\ (uploaded_file' # NoFile /\ uploaded_file' <= 20 * 1024 * 1024) =>
              /\ page'.button
              /\ page'.error # "size"
      ]_vars

C9_Witness ==
    /\ lastEvent = "upload"
    /\ uploaded_file > 20 * 1024 * 1024
    /\ page.error = "size"
    /\ HasTranscript
    /\ calls > 0

\* C10 as stated: while no transcription has succeeded, an execution that
\* reaches the display section ends in an error.
C10_IllegalState ==
    ~HasTranscript => page.exception # NoException

\* C10 as amended: while no transcription has succeeded the display section
\* is skipped: no full text, no segment editor and no download is on the
\* page, no widget is registered and no error is raised.
C10_GuardedDisplay ==
    ~HasTranscript =>
        /\ page.full = <<>>
        /\ page.rows = <<>>
        /\ page.txt = <<>>
        /\ page.excel = <<>>
        /\ page.exception = NoException
        /\ DOMAIN widgets = {}

C10_Witness ==
    /\ ~HasTranscript
    /\ lastEvent = "process_fail"
    /\ page.error = "api"

\* The events that re-execute the script with no edit and no new result.
Rerender(event) ==
    event \in {"upload", "remove", "process_fail", "download_txt",
               "download_excel"}

\* The keys of the segment editors on the page, in page order.
RowKeys(pg) == [i \in 1..Len(pg.rows) |-> pg.rows[i].key]

\* st.session_state['edited_segments'], empty while it is not set.
EditedSegments(ss) ==
    IF "edited_segments" \in DOMAIN ss THEN ss["edited_segments"] ELSE <<>>

\* C11: an edit to the empty string is shown as such.  The execution caused
\* by setting a segment editor (or the full transcript editor) to "" shows
\* and exports "" for it, and an editor that shows "" still shows "" after
\* an execution with no edit and no new result.
C11_EmptyEditShown ==
    [][ /\ (lastEvent' = "edit_segment" /\ edited'[2] = "") =>
              \A i \in 1..Len(page'.rows) :
                  page'.rows[i].key = edited'[1] =>
                      /\ page'.rows[i].text = ""
                      /\ page'.excel # <<>> => page'.excel[1][i].Content = ""
        /\ (lastEvent' = "edit_full" /\ edited'[2] = "") =>
              /\ page'.full = <<"">>
              /\ page'.txt = <<"">>
        /\ Rerender(lastEvent') =>
              /\ page.full = <<"">> => page'.full = <<"">>
              /\ \A i \in 1..Len(page.rows) :
                    page.rows[i].text = "" => page'.rows[i].text = ""
      ]_vars

\* C12: idempotence.  Submitting the same edit (same editor, same text) a
\* second time in a row leaves st.session_state as the first left it.
C12_EditIdempotent ==
    [][ (/\ lastEvent \in {"edit_segment", "edit_full"}
         /\ lastEvent' = lastEvent
         /\ edited' = edited) =>
            session_state' = session_state
      ]_vars

\* C13: while no transcription has succeeded, edited_transcript is not set
\* and edited_segments is not set or has no entry.
C13_EditStateEmptyBeforeIngest ==
    result = <<>> =>
        /\ "edited_transcript" \notin DOMAIN session_state
        /\ DOMAIN EditedSegments(session_state) = {}

C13_Witness ==
    /\ result = <<>>
    /\ calls = MaxCalls
    /\ tmp_files > 0
    /\ lastEvent = "upload"
    /\ page.error = "size"

\* C14: the stored transcript and the stored segments are those of the most
\* recent successful call, both of them; before the first success neither
\* is stored.
C14_WholesaleResult ==
    /\ result = <<>> =>
          /\ "transcript" \notin DOMAIN session_state
          /\ "segments" \notin DOMAIN session_state
    /\ result # <<>> =>
          /\ session_state["transcript"] = result[1].text
          /\ session_state["segments"] = result[1].segments

C14_Witness ==
    /\ calls = 2
    /\ lastEvent = "process_fail"
    /\ result # <<>>
    /\ session_state["transcript"] = result[1].text
    /\ Len(session_state["segments"]) = 2

\* C15: the session starts with no transcript stored; a transcript appears
\* only in the execution of a successful transcription; once stored, a
\* transcript stays stored under every event.
C15_EmptyThenReady ==
    /\ ~HasTranscript
    /\ [][ /\ HasTranscript => HasTranscript'
           /\ (~HasTranscript /\ HasTranscript') =>
                 /\ lastEvent' = "process_ok"
                 /\ calls' = calls + 1
         ]_vars

C15_Witness ==
    /\ HasTranscript
    /\ lastEvent = "remove"
    /\ uploaded_file = NoFile
    /\ fullEdit # <<>>
    /\ tmp_files > 0

\* C16: frame of an edit.  The execution caused by an edit of one segment
\* editor leaves the other editors' texts and export rows, the full text
\* and the stored transcript and segments as they were; the execution
\* caused by an edit of the full text leaves every segment editor's text,
\* the Excel export and the stored transcript and segments as they were.
C16_EditFrame ==
    [][ /\ lastEvent' = "edit_segment" =>
              /\ RowKeys(page') = RowKeys(page)
              /\ \A i \in 1..Len(page.rows) :
                    page.rows[i].key # edited'[1] =>
                        /\ page'.rows[i].text = page.rows[i].text
                        /\ page.excel # <<>> =>
                              /\ page'.excel # <<>>
                              /\ page'.excel[1][i] = page.excel[1][i]
              /\ page'.full = page.full
              /\ page'.txt = page.txt
              /\ session_state'["transcript"] = session_state["transcript"]
              /\ session_state'["segments"] = session_state["segments"]
        /\ lastEvent' = "edit_full" =>
              /\ RowKeys(page') = RowKeys(page)
              /\ RowTexts(page') = RowTexts(page)
              /\ page'.excel = page.excel
              /\ session_state'["transcript"] = session_state["transcript"]
              /\ session_state'["segments"] = session_state["segments"]
              /\ session_state'["edited_segments"]
                    = session_state["edited_segments"]
      ]_vars

C16_Witness ==
    /\ lastEvent = "edit_segment"
    /\ Len(page.rows) = 2
    /\ edited[1] = page.rows[1].key
    /\ page.rows[1].text = edited[2]
    /\ page.rows[1].text # OriginalText(1)
    /\ page.rows[2].text # OriginalText(2)
    /\ fullEdit # <<>>

\* C17: an execution with no edit and no new result is a no-op on the view:
\* every segment editor keeps its key and its text, and the full text and
\* both exports are unchanged.
C17_RerenderNoOp ==
    [][ Rerender(lastEvent') =>
            /\ RowKeys(page') = RowKeys(page)
            /\ RowTexts(page') = RowTexts(page)
            /\ page'.full = page.full
            /\ page'.txt = page.txt
            /\ page'.excel = page.excel
            /\ page'.exception = page.exception
      ]_vars

C17_Witness ==
    /\ lastEvent = "download_excel"
    /\ DOMAIN segEdit # {}
    /\ fullEdit # <<>>
    /\ \E i \in 1..Len(page.rows) : page.rows[i].text # OriginalText(i)

\* C18: between user events no temporary audio file exists.
C18_NoTempFileLeft ==
    tmp_files = 0

\* C19: after an execution with a transcript stored, edited_segments has an
\* entry for the key of every segment of the stored result, equal to the
\* text of that segment's editor; no execution removes an entry.
C19_EntryForEverySegment ==
    [][ /\ HasTranscript' =>
              /\ \A i \in 1..Len(Stored') :
                    segment_key(Stored'[i])
                        \in DOMAIN EditedSegments(session_state')
              /\ \A i \in 1..Len(page'.rows) :
                    EditedSegments(session_state')[page'.rows[i].key]
                        = page'.rows[i].text
        /\ DOMAIN EditedSegments(session_state)
              \subseteq DOMAIN EditedSegments(session_state')
      ]_vars

====
